---- MODULE Spec2Model ----
(***************************************************************************)
(* A model of the lkcloud/errors error-stack library: the Err stack of     *)
(* Msg frames, the Codes registry, the composition operations New, Wrap,   *)
(* From, With and Push, the accessors and the Format renderer.             *)
(*                                                                         *)
(* Text is a sequence of chunks.  A chunk is either a literal without a    *)
(* percent sign or a two-character verb ("%s", or "%!" as fmt writes it in *)
(* its own error markers), so that fmt's treatment of a text used as a     *)
(* format can be computed.  Str flattens a text to the Go string.          *)
(*                                                                         *)
(* Spec takes the calls one after the other on the error a caller holds.   *)
(* ConcSpec takes two goroutines through one call each on a shared stack,  *)
(* one access of err.errs or err.mux at a time.  ConcFairSpec adds the     *)
(* scheduler's fairness: a runnable goroutine runs, and a goroutine        *)
(* waiting in Lock gets a mutex that is unlocked again and again.          *)
(***************************************************************************)
EXTENDS Integers, Sequences, FiniteSets, TLC

VARIABLES err, mux, last, threads

vars == <<err, mux, last, threads>>

-----------------------------------------------------------------------------
(* Bounds of the model *)

\* Longest frame sequence an operation may build.
MaxLen == 3

-----------------------------------------------------------------------------
(* Error codes *)

ErrSuccess == 0
ErrUnknown == 1
ErrFatal == 2
ErrCodeNotFound == 3
ErrDecodingJSON == 101
ErrDecodingToml == 102
ErrDecodingYaml == 103
ErrEncodingJSON == 105
ErrEncodingToml == 106
ErrEncodingYaml == 107
ErrInvalidJSON == 108
ErrTypeConversionFailed == 111
ConfigurationNotValid == 1000
StatusOK == 200
StatusInternalServerError == 500

-----------------------------------------------------------------------------
(* fmt *)

RECURSIVE Str(_)
\* The Go string a text stands for.
Str(t) == IF t = <<>> THEN "" ELSE Head(t) \o Str(Tail(t))

RECURSIVE ExtraArgs(_, _)
\* fmt's list of the arguments no verb consumed.
ExtraArgs(data, j) ==
    IF j > Len(data) THEN ""
    ELSE "string=" \o data[j] \o (IF j < Len(data) THEN ", " ELSE "")
         \o ExtraArgs(data, j + 1)

RECURSIVE Printf(_, _, _, _)
\* fmt's walk over a format: literals are copied; %s writes the next argument,
\* or %!s(MISSING) when none is left; the verb of "%!" is no verb fmt knows,
\* so it writes %!!(string=arg) for the next argument, or %!!(MISSING); the
\* arguments left at the end are listed in %!(EXTRA ...).
Printf(format, data, i, j) ==
    IF i > Len(format)
    THEN IF j <= Len(data)
         THEN <<"%!", "(EXTRA " \o ExtraArgs(data, j) \o ")">>
         ELSE <<>>
    ELSE IF format[i] = "%s"
         THEN IF j <= Len(data)
              THEN <<data[j]>> \o Printf(format, data, i + 1, j + 1)
              ELSE <<"%!", "s(MISSING)">> \o Printf(format, data, i + 1, j)
         ELSE IF format[i] = "%!"
              THEN IF j <= Len(data)
                   THEN <<"%!", "!(string=" \o data[j] \o ")">>
                        \o Printf(format, data, i + 1, j + 1)
                   ELSE <<"%!", "!(MISSING)">> \o Printf(format, data, i + 1, j)
              ELSE <<format[i]>> \o Printf(format, data, i + 1, j)

\* fmt.Sprintf(msg, data...), and the text of fmt.Errorf(msg, data...).
Sprintf(msg, data) == Printf(msg, data, 1, 1)

\* fmt.Sprintf("%s (code:%s)", text, fmt.Sprintf("%d", code))
WithCode(text, code) == text \o <<" (code:", ToString(code), ")">>

-----------------------------------------------------------------------------
(* The registry of codes *)

ErrCode(ext, int, http) == [Ext |-> ext, Int |-> int, HTTP |-> http]

\* Codes after the package's init().
LibraryCodes ==
    (ErrSuccess :> ErrCode(<<"ok">>, <<"ok">>, 0))
 @@ (ErrUnknown :> ErrCode(<<"an unknown error occurred">>, <<>>, 0))
 @@ (ErrFatal :> ErrCode(<<"a fatal error occurred">>, <<"a fatal error occurred">>, 0))
 @@ (ErrCodeNotFound :> ErrCode(<<"code not found">>, <<"code not found">>, 0))
 @@ (ErrDecodingJSON :> ErrCode(<<"JSON data could not be decoded">>, <<"JSON data could not be decoded">>, 0))
 @@ (ErrDecodingToml :> ErrCode(<<"TOML data could not be decoded">>, <<"TOML data could not be decoded">>, 0))
 @@ (ErrDecodingYaml :> ErrCode(<<"YAML data could not be decoded">>, <<"YAML data could not be decoded">>, 0))
 @@ (ErrEncodingJSON :> ErrCode(<<"JSON data could not be encoded">>, <<"JSON data could not be encoded">>, 0))
 @@ (ErrEncodingToml :> ErrCode(<<"TOML data could not be encoded">>, <<"TOML data could not be encoded">>, 0))
 @@ (ErrEncodingYaml :> ErrCode(<<"YAML data could not be encoded">>, <<"YAML data could not be encoded">>, 0))
 @@ (ErrTypeConversionFailed :> ErrCode(<<"data type conversion failed">>, <<"data type conversion failed">>, 0))

\* The entry the caller's init() registers.
CallerCodes ==
    ConfigurationNotValid :>
        ErrCode(<<"Configuration not valid">>, <<"the configuration is invalid">>,
                StatusInternalServerError)

\* The Codes map once every init() has run.
Codes == CallerCodes @@ LibraryCodes

\* ErrCode.Detail
CodeDetail(code) == code.Int

\* ErrCode.String
CodeString(code) == code.Ext

\* ErrCode.HTTPStatus
CodeHTTPStatus(code) == IF 0 = code.HTTP THEN 200 ELSE code.HTTP

-----------------------------------------------------------------------------
(* Error values *)

\* The nil error.
Nil == [kind |-> "nil"]

\* An error of another package (errors.New, fmt.Errorf) with its text.
Errorf(text) == [kind |-> "error", text |-> text]

\* A Msg value.
Msg(e, caller, code, msg, trace) ==
    [kind |-> "Msg", err |-> e, caller |-> caller, code |-> code, msg |-> msg,
     trace |-> trace]

\* A *Err: a reference to a stack with the frames errs.
PtrErr(errs) == [kind |-> "*Err", errs |-> errs]

\* An Err passed by value.
ValErr(errs) == [kind |-> "Err", errs |-> errs]

RECURSIVE Error(_)
\* e.Error() of a non-nil error value: Msg.Error is Msg.String, which is the
\* message when the frame has no err and the err's text otherwise; Err.Error
\* is the last frame's text, empty on an empty stack.
Error(e) ==
    CASE e.kind = "error" -> e.text
      [] e.kind = "Msg" -> IF e.err.kind = "nil" THEN e.msg ELSE Error(e.err)
      [] OTHER -> IF Len(e.errs) > 0 THEN Error(e.errs[Len(e.errs)]) ELSE <<>>

\* Msg.String
MsgString(m) == Error(m)

\* Msg.SetCode: the receiver is a copy, the changed copy is the result.
SetCode(m, code) == [m EXCEPT !.code = code]

-----------------------------------------------------------------------------
(* The Err stack: errs is its frame sequence, root first *)

\* Err.Push: append(err.errs, e...)
Push(errs, e) == errs \o e

\* Err.Len
ErrLen(errs) == Len(errs)

\* Err.Last: err.errs[len(err.errs)-1], an index out of range on an empty
\* stack (LastFaults).
Last(errs) == errs[Len(errs)]

LastFaults(errs) == Len(errs) = 0

\* New: one frame with the code, the formatted message and the trace.
New(code, msg, data, caller) ==
    <<Msg(Errorf(Sprintf(msg, data)), caller, code, Sprintf(msg, data), <<caller>>)>>

\* Cause as it would be if it read the last frame instead of the first.
CauseOfLast(errs) == IF Len(errs) > 0 THEN errs[Len(errs)] ELSE Nil

\* Err.Cause
Cause(errs) == IF ErrLen(errs) > 0 THEN errs[1] ELSE Nil

\* Code as it would be if it read the root frame instead of the last.
CodeOfRoot(errs) == IF Len(errs) > 0 THEN errs[1].code ELSE ErrUnknown

\* Err.Code
Code(errs) == IF ErrLen(errs) > 0 THEN Last(errs).code ELSE ErrUnknown

\* Err.Error
ErrError(errs) == IF ErrLen(errs) > 0 THEN Error(Last(errs)) ELSE <<>>

\* Err.Detail
Detail(errs) ==
    IF ErrLen(errs) > 0
    THEN IF Code(errs) \in DOMAIN Codes
         THEN IF <<>> # CodeDetail(Codes[Code(errs)])
              THEN CodeDetail(Codes[Code(errs)])
              ELSE ErrError(errs)
         ELSE <<>>
    ELSE <<>>

\* HTTPStatus as it would be if it looked up the root frame's code.
HTTPStatusOfRoot(errs) ==
    IF Len(errs) > 0
    THEN IF errs[1].code \in DOMAIN Codes
         THEN CodeHTTPStatus(Codes[errs[1].code])
         ELSE StatusOK
    ELSE StatusOK

\* Err.HTTPStatus
HTTPStatus(errs) ==
    IF ErrLen(errs) > 0
    THEN IF Last(errs).code \in DOMAIN Codes
         THEN CodeHTTPStatus(Codes[Last(errs).code])
         ELSE StatusOK
    ELSE StatusOK

\* Err.Msg
ErrMsg(errs) == IF ErrLen(errs) > 0 THEN Last(errs).msg ELSE <<>>

\* Err.Caller: the zero Caller on an empty stack.
Caller(errs) == IF ErrLen(errs) > 0 THEN Last(errs).caller ELSE Nil

\* Err.Trace
Trace(errs) == [k \in 1..Len(errs) |-> errs[k].caller]

\* Wrap as it would be if the frames of a *Err were not copied in.
WrapNoCopy(e, code, msg, data, caller) ==
    IF e.kind = "nil"
    THEN New(code, msg, <<>>, caller)
    ELSE LET errs == CASE e.kind = "*Err" -> <<>>
                       [] e.kind = "Msg" -> Push(<<>>, <<e>>)
                       [] OTHER -> <<Msg(e, caller, 0, Error(e), <<>>)>>
         IN Push(errs, <<Msg(Errorf(Sprintf(msg, data)), caller, code,
                             Sprintf(msg, data), <<>>)>>)

\* Wrap: nil is New without the arguments; a *Err is copied frame by frame, a
\* Msg becomes frame 0, anything else becomes a synthetic root of code 0; then
\* the new frame is pushed.
Wrap(e, code, msg, data, caller) ==
    IF e.kind = "nil"
    THEN New(code, msg, <<>>, caller)
    ELSE LET errs == CASE e.kind = "*Err" -> Push(<<>>, e.errs)
                       [] e.kind = "Msg" -> Push(<<>>, <<e>>)
                       [] OTHER -> <<Msg(e, caller, 0, Error(e), <<>>)>>
         IN Push(errs, <<Msg(Errorf(Sprintf(msg, data)), caller, code,
                             Sprintf(msg, data), <<>>)>>)

\* The wrapped error after Wrap, as it would be if Wrap pushed its frame onto
\* the stack it was given.
WrapLeavesPushed(e, code, msg, data, caller) ==
    IF e.kind = "*Err"
    THEN PtrErr(Push(e.errs, <<Msg(Errorf(Sprintf(msg, data)), caller, code,
                                   Sprintf(msg, data), <<>>)>>))
    ELSE e

\* The wrapped error after Wrap: Wrap pushes onto a stack of its own making
\* and only reads e.errs, into a new array.
WrapLeaves(e, code, msg, data, caller) == e

\* From faults on an empty *Err (index -1) and on nil (nil.Error()).
FromFaults(e) == \/ e.kind = "nil"
                 \/ e.kind = "*Err" /\ Len(e.errs) = 0

\* From: on a *Err, SetCode is called on a copy of the last frame and its
\* result is dropped, the stack is returned as it is; any other error becomes
\* a fresh stack of one frame.
From(code, e, caller) ==
    IF e.kind = "*Err"
    THEN LET dropped == SetCode(e.errs[Len(e.errs)], code) IN e.errs
    ELSE <<Msg(e, caller, code, Error(e), <<>>)>>

\* With as it would be without the nil check.
WithNoNilCheck(errs, e, msg, data, caller) ==
    IF Len(errs) = 0
    THEN Push(errs, <<Msg(e, caller, 0, Sprintf(msg, data), <<>>)>>)
    ELSE Push(Push(SubSeq(errs, 1, Len(errs) - 1),
                   <<Msg(e, caller, 0, Sprintf(msg, data), <<>>)>>),
              <<errs[Len(errs)]>>)

\* With as it would be if the popped top frame were not pushed back.
WithNoRestore(errs, e, msg, data, caller) ==
    IF e.kind = "nil" THEN errs
    ELSE IF Len(errs) = 0
    THEN Push(errs, <<Msg(e, caller, 0, Sprintf(msg, data), <<>>)>>)
    ELSE LET popped == SubSeq(errs, 1, Len(errs) - 1)
         IN CASE e.kind = "Err" ->
                   Push(Push(popped, <<Msg(Errorf(Sprintf(msg, data)), caller, 0,
                                           Sprintf(msg, data), <<>>)>>),
                        e.errs)
              [] e.kind = "Msg" ->
                   Push(popped, <<Msg(Errorf(Sprintf(msg, data)), caller, 0,
                                      IF Len(popped) > 0
                                      THEN Error(popped[Len(popped)]) ELSE <<>>,
                                      <<>>), e>>)
              [] OTHER ->
                   Push(popped, <<Msg(e, caller, 0, Sprintf(msg, data), <<>>)>>)

\* Err.With
With(errs, e, msg, data, caller) ==
    IF e.kind = "nil" THEN errs
    ELSE IF ErrLen(errs) = 0
    THEN Push(errs, <<Msg(e, caller, 0, Sprintf(msg, data), <<>>)>>)
    ELSE LET top == Last(errs)
             popped == SubSeq(errs, 1, Len(errs) - 1)
             spliced ==
               CASE e.kind = "Err" ->
                      Push(Push(popped, <<Msg(Errorf(Sprintf(msg, data)), caller, 0,
                                              Sprintf(msg, data), <<>>)>>),
                           e.errs)
                 [] e.kind = "Msg" ->
                      Push(popped, <<Msg(Errorf(Sprintf(msg, data)), caller, 0,
                                         ErrError(popped), <<>>), e>>)
                 [] OTHER ->
                      Push(popped, <<Msg(e, caller, 0, Sprintf(msg, data), <<>>)>>)
         IN Push(spliced, <<top>>)

-----------------------------------------------------------------------------
(* Rendering *)

\* The registry entry Format uses for a frame: the registered one, or one made
\* of the frame's own text when the code is not registered.
FrameCode(m) ==
    IF m.code \in DOMAIN Codes THEN Codes[m.code]
    ELSE ErrCode(Error(m), Error(m), 0)

\* Format's errMsgInt of a frame.
ErrMsgInt(m) ==
    IF <<>> # CodeDetail(FrameCode(m))
    THEN WithCode(CodeDetail(FrameCode(m)), m.code)
    ELSE WithCode(Error(m), m.code)

\* Format's errMsgExt of a frame.
ErrMsgExt(m) ==
    IF <<>> # CodeString(FrameCode(m))
    THEN WithCode(CodeString(FrameCode(m)), m.code)
    ELSE WithCode(Error(m), m.code)

\* The text Format writes for the frame stored at Go index k under a flag (the
\* quotes around the function name are backquotes in the source).
Entry(m, k, flag) ==
    CASE flag = "+" ->
           <<"#", ToString(k), ": '", m.caller.fn, "'\n">>
           \o <<"\terror:   ">> \o m.msg \o <<"\n">>
           \o <<"\tline:    ", m.caller.file, ":", ToString(m.caller.line), "\n">>
           \o <<"\tdetail:  ">> \o ErrMsgInt(m) \o <<"\n">>
           \o <<"\tmessage: ">> \o ErrMsgExt(m) \o <<"\n">>
      [] OTHER ->
           <<"#", ToString(k), " - caller: \"", m.caller.file, ":",
             ToString(m.caller.line), ":", m.caller.fn, "\" error: \"">>
           \o m.msg \o <<"\" detail: \"">> \o ErrMsgInt(m) \o <<"\"">>
           \o <<IF flag = "#" THEN "\n" ELSE " ">>

RECURSIVE EntriesRootFirst(_, _, _)
\* The loop of Format as it would be if it wrote the root's entry first.
EntriesRootFirst(errs, k, flag) ==
    IF k < 0 THEN <<>>
    ELSE EntriesRootFirst(errs, k - 1, flag) \o Entry(errs[k + 1], k, flag)

RECURSIVE Entries(_, _, _)
\* The loop of Format from Go index k down to 0.
Entries(errs, k, flag) ==
    IF k < 0 THEN <<>>
    ELSE Entry(errs[k + 1], k, flag) \o Entries(errs, k - 1, flag)

\* strings.Trim(s, " \n\t") of a text whose separators are chunks of their own.
Trim(t) ==
    IF t # <<>> /\ t[Len(t)] \in {" ", "\n", "\t"} THEN SubSeq(t, 1, Len(t) - 1)
    ELSE t

\* Err.Format: verb v with one of the flags "+", "#", "-", or "" for none, and
\* every other verb.  Without a flag the top frame's errMsgExt is itself used as
\* the format; any other verb uses err.Error() as the format.
Format(errs, flag, verb) ==
    IF verb = "v"
    THEN IF flag = ""
         THEN IF Len(errs) > 0 THEN Sprintf(ErrMsgExt(errs[Len(errs)]), <<>>) ELSE <<>>
         ELSE Trim(Entries(errs, Len(errs) - 1, flag))
    ELSE Sprintf(ErrError(errs), <<>>)

\* Err.String
String(errs) == Format(errs, "", "v")

\* DecodeErr as it would be without the nil check: nil falls to the default.
DecodeErrNoNilCheck(e) ==
    IF e.kind = "*Err" THEN <<Code(e.errs), String(e.errs)>>
    ELSE <<ErrUnknown, CodeString(Codes[ErrUnknown])>>

\* DecodeErr: the pair (code, external text) of nil, of a *Err, and of every
\* other error (the type switch has the one case *Err).
DecodeErr(e) ==
    IF e.kind = "nil" THEN <<ErrSuccess, CodeString(Codes[ErrSuccess])>>
    ELSE IF e.kind = "*Err" THEN <<Code(e.errs), String(e.errs)>>
    ELSE <<ErrUnknown, CodeString(Codes[ErrUnknown])>>

-----------------------------------------------------------------------------
(* The inputs the operations are called with *)

\* getCaller(): the call site outside the library.
CallSite == [file |-> "mocks_test.go", line |-> 30, fn |-> "errors_test.loadConfig"]

\* The codes callers classify with: registered without internal text, not
\* registered, and registered by the caller with a status.
CodeArgs == {ErrUnknown, ErrInvalidJSON, ConfigurationNotValid}

\* Message templates with their arguments.
MsgArgs ==
    { [msg |-> <<"service configuration could not be loaded">>, data |-> <<>>],
      [msg |-> <<"could not read ", "%s">>, data |-> <<"config.json">>] }

\* The (code, message, arguments) New and Wrap are called with.
Calls ==
    { [code |-> ErrUnknown, msg |-> <<"could not read configuration file">>,
       data |-> <<>>],
      [code |-> ErrInvalidJSON, msg |-> <<"could not decode ", "%s">>,
       data |-> <<"configuration data">>],
      [code |-> ConfigurationNotValid,
       msg |-> <<"service configuration could not be loaded">>, data |-> <<>>] }

\* A call whose argument is itself a text with a verb in it.
VerbCall ==
    [code |-> ErrInvalidJSON, msg |-> <<"could not decode ", "%s">>,
     data |-> <<"%s">>]

errEOF == Errorf(<<"read: end of input">>)

otherErr == Errorf(<<"some other process failed">>)

\* A single frame passed as a Msg value.
someMsg == Last(New(ErrFatal, <<"failed to do work">>, <<>>, CallSite))

\* A stack passed by reference, as New returns it.
someErr == PtrErr(New(ErrUnknown, <<"failed to load configuration">>, <<>>, CallSite))

\* A stack of two frames passed by value.
someErrValue ==
    ValErr(Wrap(otherErr, ErrFatal, <<"could not decode configuration data">>, <<>>,
                CallSite))

\* readConfig as it would be if the read had not failed.
readConfigNoFailure ==
    Wrap(Nil, ErrUnknown, <<"could not read configuration file">>, <<>>,
         [file |-> "mocks_test.go", line |-> 40, fn |-> "errors_test.readConfig"])

\* readConfig(): the read fails and the failure is wrapped.
readConfig ==
    Wrap(errEOF, ErrUnknown, <<"could not read configuration file">>, <<>>,
         [file |-> "mocks_test.go", line |-> 40, fn |-> "errors_test.readConfig"])

\* decodeConfig(): calls readConfig and wraps what it returns.
decodeConfig ==
    Wrap(PtrErr(readConfig), ErrInvalidJSON,
         <<"could not decode configuration data">>, <<>>,
         [file |-> "mocks_test.go", line |-> 35, fn |-> "errors_test.decodeConfig"])

\* loadConfig(): calls decodeConfig and wraps what it returns.
loadConfig ==
    Wrap(PtrErr(decodeConfig), ConfigurationNotValid,
         <<"service configuration could not be loaded">>, <<>>, CallSite)

\* The non-nil errors handed to Wrap, From and With besides the held stack.
ErrArgs == {errEOF, someMsg, someErr, someErrValue}

\* The methods of Err that read the stack and are called as steps; all but
\* Trace take the stack's mutex through Len or Last.
Accessors ==
    {"Len", "Last", "Code", "Cause", "Msg", "Detail", "HTTPStatus", "Trace", "Error"}

Locking == Accessors \ {"Trace"}

\* The formats a stack is printed with: the flag and the verb Format gets.
FormatArgs ==
    ("%v" :> [flag |-> "", verb |-> "v"])
 @@ ("%+v" :> [flag |-> "+", verb |-> "v"])
 @@ ("%#v" :> [flag |-> "#", verb |-> "v"])
 @@ ("%-v" :> [flag |-> "-", verb |-> "v"])
 @@ ("%s" :> [flag |-> "", verb |-> "s"])

-----------------------------------------------------------------------------
(* The state: err is the error value the caller holds (nil or a *Err), mux   *)
(* the mutex of that stack ("nil" until Lock creates it), last the operation *)
(* that ran last: whether it faulted, the stack it was called on (pre, for   *)
(* the methods of Err) and the error, code and message it was given.         *)
(* threads holds the goroutines working on the held stack, none in Spec.     *)

Op(op, fault, pre, e, code, a) ==
    [op |-> op, fault |-> fault, pre |-> pre, e |-> e, code |-> code,
     msg |-> a.msg, data |-> a.data]

NoArgs == [msg |-> <<>>, data |-> <<>>]

\* What New, Wrap, From and DecodeErr make of errors that are not the held
\* one does not depend on the error held, so these calls are taken while none
\* is held.
NoneHeld == err.kind = "nil"

Init ==
    /\ err = Nil
    /\ mux = "nil"
    /\ threads = <<>>
    /\ last = Op("init", FALSE, Nil, Nil, 0, NoArgs)

\* err := &Err{}
Zero ==
    /\ NoneHeld
    /\ err' = PtrErr(<<>>)
    /\ mux' = "nil"
    /\ UNCHANGED threads
    /\ last' = Op("Zero", FALSE, Nil, Nil, 0, NoArgs)

\* err = New(code, msg, data...)
DoNew(code, a) ==
    /\ NoneHeld
    /\ err' = PtrErr(New(code, a.msg, a.data, CallSite))
    /\ mux' = "unlocked"
    /\ UNCHANGED threads
    /\ last' = Op("New", FALSE, Nil, Nil, code, a)

\* err = Wrap(e, code, msg, data...), e the held error or another one.
DoWrap(e, code, a) ==
    /\ e = err \/ NoneHeld
    /\ Len(Wrap(e, code, a.msg, a.data, CallSite)) <= MaxLen
    /\ err' = PtrErr(Wrap(e, code, a.msg, a.data, CallSite))
    /\ mux' = "unlocked"
    /\ UNCHANGED threads
    /\ last' = Op("Wrap", FALSE, Nil, WrapLeaves(e, code, a.msg, a.data, CallSite),
                   code, a)

\* err = From(code, err): the held stack comes back with its mutex, or the
\* call faults.
DoFromHeld(code) ==
    /\ UNCHANGED threads
    /\ last' = Op("From", FromFaults(err), err, err, code, NoArgs)
    /\ err' = IF FromFaults(err) THEN err ELSE PtrErr(From(code, err, CallSite))
    /\ mux' = mux

\* err = From(code, e) for another error.
DoFrom(code, e) ==
    /\ NoneHeld
    /\ err' = PtrErr(From(code, e, CallSite))
    /\ mux' = "unlocked"
    /\ UNCHANGED threads
    /\ last' = Op("From", FALSE, Nil, e, code, NoArgs)

\* err = err.With(e, msg, data...): a nil e returns before any lock is taken.
DoWith(e, a) ==
    /\ err.kind = "*Err"
    /\ e.kind = "nil" \/ mux # "locked"
    /\ Len(With(err.errs, e, a.msg, a.data, CallSite)) <= MaxLen
    /\ err' = PtrErr(With(err.errs, e, a.msg, a.data, CallSite))
    /\ mux' = IF e.kind = "nil" THEN mux ELSE "unlocked"
    /\ UNCHANGED threads
    /\ last' = Op("With", FALSE, err, e, 0, a)

\* err.Push(m)
DoPush(m) ==
    /\ err.kind = "*Err"
    /\ mux # "locked"
    /\ Len(Push(err.errs, <<m>>)) <= MaxLen
    /\ err' = PtrErr(Push(err.errs, <<m>>))
    /\ mux' = "unlocked"
    /\ UNCHANGED threads
    /\ last' = Op("Push", FALSE, err, m, 0, NoArgs)

\* A call of one of the reading methods.  Last on an empty stack faults with
\* the mutex held: Lock has run, Unlock has not.
Access(m) ==
    /\ err.kind = "*Err"
    /\ m \in Locking => mux # "locked"
    /\ UNCHANGED threads
    /\ last' = Op(m, m = "Last" /\ LastFaults(err.errs), err, Nil, 0, NoArgs)
    /\ mux' = IF m \notin Locking THEN mux
              ELSE IF m = "Last" /\ LastFaults(err.errs) THEN "locked"
              ELSE "unlocked"
    /\ err' = err

\* fmt.Sprintf(f, err) and err.String(): Format reads the frames and takes no
\* lock.
DoFormat(f) ==
    /\ err.kind = "*Err"
    /\ UNCHANGED <<err, mux>>
    /\ UNCHANGED threads
    /\ last' = Op(f, FALSE, err, Nil, 0, NoArgs)

\* err := loadConfig()
DoLoadConfig ==
    /\ NoneHeld
    /\ err' = PtrErr(loadConfig)
    /\ mux' = "unlocked"
    /\ UNCHANGED threads
    /\ last' = Op("loadConfig", FALSE, Nil, Nil, 0, NoArgs)

\* DecodeErr(e) for the held error, or for another one while none is held;
\* Code() takes the mutex of the stack it is called on.
DoDecodeErr(e) ==
    /\ e = err \/ NoneHeld
    /\ e = err /\ err.kind = "*Err" => mux # "locked"
    /\ err' = err
    /\ mux' = IF e = err /\ err.kind = "*Err" THEN "unlocked" ELSE mux
    /\ UNCHANGED threads
    /\ last' = Op("DecodeErr", FALSE, Nil, e, 0, NoArgs)

Next ==
    \/ Zero
    \/ \E c \in Calls \cup {VerbCall} : DoNew(c.code, c)
    \/ \E e \in {err} \cup ErrArgs, c \in Calls : DoWrap(e, c.code, c)
    \/ \E code \in CodeArgs : DoFromHeld(code)
    \/ \E code \in CodeArgs, e \in {errEOF, someErr} : DoFrom(code, e)
    \/ \E e \in {Nil} \cup ErrArgs, a \in MsgArgs : DoWith(e, a)
    \/ DoPush(someMsg)
    \/ \E m \in Accessors : Access(m)
    \/ \E e \in {err} \cup ErrArgs : DoDecodeErr(e)
    \/ DoLoadConfig
    \/ \E f \in DOMAIN FormatArgs : DoFormat(f)

Spec == Init /\ [][Next]_vars

-----------------------------------------------------------------------------
(* Goroutines on one stack.  Each goroutine makes one call on the held stack *)
(* and takes it one step at a time: a step is one statement that reads or    *)
(* writes err.errs or err.mux, or one branch on a local.  todo lists the     *)
(* steps it has left, n, top and snap are its locals, holds says that it     *)
(* holds err.mux, fault that it panicked.                                    *)

Threads == {"t1", "t2"}

\* The steps of Err.Lock: errMux.Lock(), the making of err.mux when it is nil,
\* errMux.Unlock(), then err.mux.Lock().
LockCall == <<"errMux", "newMux", "errMuxUnlock", "mux">>

\* The steps of Err.Len, Err.Last and Err.Push.
LenCall == LockCall \o <<"len", "unlock">>

LastCall == LockCall \o <<"last", "unlock">>

PushCall(what) == LockCall \o <<what, "unlock">>

\* The steps each call starts with; "if" stands for the branch that follows
\* a call of Len (With, Code, Cause) or the loop header (Format).
Calling ==
    [ Len |-> LenCall,
      Last |-> LastCall,
      Push |-> PushCall("append.msg"),
      Code |-> LenCall \o <<"if">>,
      Msg |-> LenCall \o <<"if">>,
      Caller |-> LenCall \o <<"if">>,
      HTTPStatus |-> LenCall \o <<"if">>,
      Cause |-> LenCall \o <<"if">>,
      With |-> LenCall \o <<"if">>,
      From |-> <<"fromLast">>,
      Trace |-> <<"range">>,
      Format |-> <<"fmtLen", "if">> ]

\* The steps that follow the branch, given the length the goroutine read.
Branch(op, n) ==
    CASE op = "With" ->
           IF n = 0 THEN PushCall("append.extra")
           ELSE LastCall \o <<"popRead", "popWrite">>
                \o PushCall("append.extra") \o PushCall("append.top")
      [] op \in {"Code", "Msg", "Caller", "HTTPStatus"} ->
           IF n > 0 THEN LastCall ELSE <<>>
      [] op = "Cause" -> IF n > 0 THEN <<"root">> ELSE <<>>
      [] op = "Format" -> IF n > 0 THEN <<"fmtIndex">> ELSE <<>>

\* The steps that read err.errs, and those that write it.
Reads == {"len", "last", "popRead", "root", "range", "fromLast", "fmtLen", "fmtIndex"}

Writes == {"append.msg", "append.extra", "append.top", "popWrite"}

\* The foreign error and the message the goroutines call With with, and the
\* frame With makes of them.
WithArgs == [e |-> errEOF, msg |-> <<"could not read ", "%s">>, data |-> <<"config.json">>]

WithFrame == Msg(WithArgs.e, CallSite, 0, Sprintf(WithArgs.msg, WithArgs.data), <<>>)

Go(op) ==
    [op |-> op, todo |-> Calling[op], n |-> 0, top |-> Nil, snap |-> <<>>,
     holds |-> FALSE, fault |-> FALSE, pkg |-> FALSE, made |-> FALSE]

\* The stacks the goroutines are started on: &Err{} and what New and
\* readConfig return.
Shared == {PtrErr(<<>>), someErr, PtrErr(readConfig)}

ConcInit ==
    /\ err \in Shared
    /\ mux = IF err.errs = <<>> THEN "nil" ELSE "unlocked"
    /\ last = Op("go", FALSE, err, Nil, 0, NoArgs)
    /\ threads \in [Threads -> {Go(op) : op \in DOMAIN Calling}]

At(t, steps) ==
    /\ ~threads[t].fault
    /\ threads[t].todo # <<>>
    /\ Head(threads[t].todo) \in steps

\* The goroutine after its step, with the locals the step set.
Step(t, locals) ==
    [threads EXCEPT ![t] = locals @@ [@ EXCEPT !.todo = Tail(@)]]

Panic(t) == [threads EXCEPT ![t].fault = TRUE]

\* errMux.Lock() in Lock: waits until no goroutine holds the package's mutex.
LockErrMux(t) ==
    /\ At(t, {"errMux"})
    /\ \A u \in Threads : ~threads[u].pkg
    /\ threads' = Step(t, [pkg |-> TRUE])
    /\ UNCHANGED <<err, mux, last>>

\* if nil == err.mux { err.mux = &sync.Mutex{} } in Lock: made says that this
\* goroutine made a mutex for the stack.
NewMux(t) ==
    /\ At(t, {"newMux"})
    /\ mux' = IF mux = "nil" THEN "unlocked" ELSE mux
    /\ threads' = Step(t, [made |-> threads[t].made \/ mux = "nil"])
    /\ UNCHANGED <<err, last>>

\* errMux.Unlock() in Lock
UnlockErrMux(t) ==
    /\ At(t, {"errMuxUnlock"})
    /\ threads' = Step(t, [pkg |-> FALSE])
    /\ UNCHANGED <<err, mux, last>>

\* err.mux.Lock() in Lock: waits until the stack's mutex is free.
LockMux(t) ==
    /\ At(t, {"mux"})
    /\ mux = "unlocked"
    /\ mux' = "locked"
    /\ threads' = Step(t, [holds |-> TRUE])
    /\ UNCHANGED <<err, last>>

\* Err.Unlock
Unlock(t) ==
    /\ At(t, {"unlock"})
    /\ mux' = "unlocked"
    /\ threads' = Step(t, [holds |-> FALSE])
    /\ UNCHANGED <<err, last>>

\* length := len(err.errs) in Len; len(err.errs) in Format's loop header.
ReadLen(t) ==
    /\ At(t, {"len", "fmtLen"})
    /\ threads' = Step(t, [n |-> Len(err.errs)])
    /\ UNCHANGED <<err, mux, last>>

\* msg := err.errs[len(err.errs)-1] in Last: panics on an empty stack, with
\* the mutex held.
ReadLast(t) ==
    /\ At(t, {"last"})
    /\ threads' = IF err.errs = <<>> THEN Panic(t)
                  ELSE Step(t, [top |-> err.errs[Len(err.errs)]])
    /\ UNCHANGED <<err, mux, last>>

\* err.errs = append(err.errs, e...) in Push.
AppendErrs(t) ==
    /\ At(t, {"append.msg", "append.extra", "append.top"})
    /\ LET e == CASE Head(threads[t].todo) = "append.msg" -> someMsg
                  [] Head(threads[t].todo) = "append.extra" -> WithFrame
                  [] OTHER -> threads[t].top
       IN err' = PtrErr(Push(err.errs, <<e>>))
    /\ threads' = Step(t, <<>>)
    /\ UNCHANGED <<mux, last>>

\* The branch on the length read.
If(t) ==
    /\ At(t, {"if"})
    /\ threads' = [threads EXCEPT ![t].todo = Branch(threads[t].op, threads[t].n)]
    /\ UNCHANGED <<err, mux, last>>

\* With's err.errs = err.errs[:len(err.errs)-1], the read of the slice...
PopRead(t) ==
    /\ At(t, {"popRead"})
    /\ threads' = Step(t, [snap |-> err.errs])
    /\ UNCHANGED <<err, mux, last>>

\* ...and the write of the shorter one; slicing an empty stack panics.
PopWrite(t) ==
    /\ At(t, {"popWrite"})
    /\ IF threads[t].snap = <<>>
       THEN threads' = Panic(t) /\ err' = err
       ELSE /\ err' = PtrErr(SubSeq(threads[t].snap, 1, Len(threads[t].snap) - 1))
            /\ threads' = Step(t, <<>>)
    /\ UNCHANGED <<mux, last>>

\* err.errs[0] in Cause, e.errs[len(e.errs)-1] in From, err.errs[k] in Format
\* with the k of the loop header: each panics when the index is out of range.
ReadIndex(t) ==
    /\ At(t, {"root", "fromLast", "fmtIndex"})
    /\ threads' =
         IF \/ err.errs = <<>>
            \/ Head(threads[t].todo) = "fmtIndex" /\ threads[t].n > Len(err.errs)
         THEN Panic(t) ELSE Step(t, <<>>)
    /\ UNCHANGED <<err, mux, last>>

\* for _, msg := range err.errs in Trace
Range(t) ==
    /\ At(t, {"range"})
    /\ threads' = Step(t, [snap |-> err.errs])
    /\ UNCHANGED <<err, mux, last>>

\* The next step of goroutine t.
Run(t) ==
    \/ LockErrMux(t)
    \/ NewMux(t)
    \/ UnlockErrMux(t)
    \/ LockMux(t)
    \/ Unlock(t)
    \/ ReadLen(t)
    \/ ReadLast(t)
    \/ AppendErrs(t)
    \/ If(t)
    \/ PopRead(t)
    \/ PopWrite(t)
    \/ ReadIndex(t)
    \/ Range(t)

ConcNext == \E t \in Threads : Run(t)

ConcSpec == ConcInit /\ [][ConcNext]_vars

\* The goroutines under the scheduling of the Go runtime: a goroutine that can
\* take its next step takes it, and one that waits for a mutex gets it when it
\* is free again and again (a sync.Mutex hands over to a starving waiter).
ConcFairSpec ==
    /\ ConcSpec
    /\ \A t \in Threads :
          /\ WF_vars(Run(t))
          /\ SF_vars(LockMux(t))
          /\ SF_vars(LockErrMux(t))

-----------------------------------------------------------------------------
(* Properties *)

\* The caller holds a stack.
Held == err.kind = "*Err"

\* C1: Wrap(nil, c, m) has one frame, Wrap of a stack of k frames has k+1,
\* and Wrap of any other error (a foreign error; also a single Msg, and an Err
\* passed by value, which Wrap does not recognise as a stack) has two.
C1_WrapLen ==
    last.op = "Wrap" =>
        CASE last.e.kind = "nil" -> ErrLen(err.errs) = 1
          [] last.e.kind = "*Err" -> ErrLen(err.errs) = ErrLen(last.e.errs) + 1
          [] OTHER -> ErrLen(err.errs) = 2

C1_Witness ==
    /\ last.op = "Wrap"
    /\ last.e.kind = "*Err"
    /\ ErrLen(last.e.errs) = 2
    /\ ErrLen(err.errs) = 3

C3_LastCodeWins ==
    last.op \in {"New", "Wrap"} =>
        /\ Code(err.errs) = last.code
        /\ err.errs[Len(err.errs)].code = last.code
        /\ LET str == String(err.errs)
           IN /\ Len(str) > 3
              /\ SubSeq(str, Len(str) - 2, Len(str))
                   = <<" (code:", ToString(last.code), ")">>

C3_Witness ==
    /\ last.op = "Wrap"
    /\ ErrLen(err.errs) = 3
    /\ Code(err.errs) = ErrInvalidJSON
    /\ err.errs[1].code = 0
    /\ err.errs[2].code = ConfigurationNotValid

C5_WithKeepsCause ==
    last.op = "With" /\ last.e.kind # "nil" /\ ErrLen(last.pre.errs) > 0 =>
        Cause(err.errs) = Cause(last.pre.errs)

\* C6: With(nil, m) returns the stack it was called on, with the same frames
\* in the same order, whether the stack is empty or not.
C6_WithNilIdentity ==
    last.op = "With" /\ last.e.kind = "nil" => err = last.pre

C6_Witness ==
    /\ last.op = "With"
    /\ last.e.kind = "nil"
    /\ ErrLen(last.pre.errs) = 2
    /\ err.errs = last.pre.errs

\* C7: From(c, err) on a stack leaves the length and the lower frames alone
\* and makes c the code of the last frame; on a foreign error it builds one
\* frame with code c and the error's text as message.
C7_FromSetsCode ==
    last.op = "From" /\ ~last.fault =>
        IF last.e.kind = "*Err"
        THEN /\ ErrLen(err.errs) = ErrLen(last.e.errs)
             /\ \A k \in 1..(ErrLen(err.errs) - 1) : err.errs[k] = last.e.errs[k]
             /\ Last(err.errs).code = last.code
             /\ Code(err.errs) = last.code
        ELSE /\ ErrLen(err.errs) = 1
             /\ Code(err.errs) = last.code
             /\ ErrMsg(err.errs) = Error(last.e)

\* C8: Detail() of a stack with frames is the internal text registered for the
\* top frame's code when there is one, and the top frame's error text when the
\* internal text is empty or the code is not registered; so it is empty only
\* when that text is.
C8_DetailFallback ==
    Held /\ ErrLen(err.errs) > 0 =>
        LET top == Last(err.errs)
        IN /\ Detail(err.errs) =
                IF top.code \in DOMAIN Codes /\ Codes[top.code].Int # <<>>
                THEN Codes[top.code].Int
                ELSE Error(top)
           /\ Detail(err.errs) = <<>> => Error(top) = <<>>

\* C9: on a stack without frames every accessor returns, and returns the zero
\* value: Code() the success code, the text accessors the empty string.
C9_EmptyStackAccessors ==
    last.op \in Accessors /\ ErrLen(last.pre.errs) = 0 =>
        /\ ~last.fault
        /\ mux # "locked"
        /\ last.op = "Len" => ErrLen(err.errs) = 0
        /\ last.op = "Code" => Code(err.errs) = ErrSuccess
        /\ last.op = "Cause" => Cause(err.errs) = Nil
        /\ last.op = "Msg" => ErrMsg(err.errs) = <<>>
        /\ last.op = "Detail" => Detail(err.errs) = <<>>
        /\ last.op = "Error" => ErrError(err.errs) = <<>>
        /\ last.op = "Trace" => Trace(err.errs) = <<>>
        /\ last.op = "HTTPStatus" => HTTPStatus(err.errs) \in {0, StatusOK}

\* C10: HTTPStatus() is the status registered for the top frame's code when
\* that is not zero, and 200 when the code is not registered, is registered
\* without a status, or there is no frame.
C10_HTTPStatusOfTop ==
    Held =>
        HTTPStatus(err.errs) =
            IF ErrLen(err.errs) = 0 THEN 200
            ELSE LET c == err.errs[Len(err.errs)].code
                 IN IF c \notin DOMAIN Codes THEN 200
                    ELSE IF Codes[c].HTTP = 0 THEN 200 ELSE Codes[c].HTTP

C10_Witness ==
    /\ Held
    /\ ErrLen(err.errs) = 3
    /\ err.errs[2].code = ConfigurationNotValid
    /\ err.errs[3].code = ErrInvalidJSON
    /\ HTTPStatus(err.errs) = 200
    /\ Codes[err.errs[2].code].HTTP = StatusInternalServerError

\* C11: Wrap(nil, c, t, args...) yields the stack New(c, t, args...) yields:
\* one frame, with code c and with the message t formatted with args.
C11_WrapNilIsNew ==
    last.op = "Wrap" /\ last.e.kind = "nil" =>
        LET new == New(last.code, last.msg, last.data, CallSite)
        IN /\ ErrLen(err.errs) = ErrLen(new)
           /\ Code(err.errs) = Code(new)
           /\ ErrMsg(err.errs) = ErrMsg(new)

\* C12: DecodeErr returns for every error: (0, "ok") for nil, (Code(),
\* String()) for a stack, (1, "an unknown error occurred") for anything else.
C12_DecodeErrThreeWay ==
    last.op = "DecodeErr" =>
        /\ ~last.fault
        /\ DecodeErr(last.e) =
             CASE last.e.kind = "nil" -> <<0, <<"ok">> >>
               [] last.e.kind = "*Err" -> <<Code(last.e.errs), String(last.e.errs)>>
               [] OTHER -> <<1, <<"an unknown error occurred">> >>

C12_Witness ==
    /\ last.op = "DecodeErr"
    /\ last.e = err
    /\ Held
    /\ ErrLen(err.errs) = 3
    /\ DecodeErr(last.e)[1] = ConfigurationNotValid
    /\ Str(DecodeErr(last.e)[2]) = "Configuration not valid (code:1000)"

\* C13 as stated: the stack loadConfig returns has Code() 1000, the root
\* cause "read: end of input", three frames and the default render
\* "Configuration not valid (code:1000)".
C13_Scenario ==
    last.op = "loadConfig" =>
        /\ Code(err.errs) = 1000
        /\ Str(Error(Cause(err.errs))) = "read: end of input"
        /\ ErrLen(err.errs) = 3
        /\ Str(String(err.errs)) = "Configuration not valid (code:1000)"

\* C13 amended: the stack loadConfig returns has Code() 1000, the root cause
\* "read: end of input", four frames (the root made for the raw error and one
\* per wrapping function) and the default render
\* "Configuration not valid (code:1000)".
C13_ScenarioFourFrames ==
    last.op = "loadConfig" =>
        /\ Code(err.errs) = 1000
        /\ Str(Error(Cause(err.errs))) = "read: end of input"
        /\ ErrLen(err.errs) = 4
        /\ Str(String(err.errs)) = "Configuration not valid (code:1000)"

C13_Witness ==
    /\ last.op = "loadConfig"
    /\ [k \in 1..Len(err.errs) |-> err.errs[k].code]
         = <<0, ErrUnknown, ErrInvalidJSON, ConfigurationNotValid>>
    /\ err.errs[1].err = errEOF

\* What fmt made of the held stack under the format of the last step.
Rendered == Format(err.errs, FormatArgs[last.op].flag, FormatArgs[last.op].verb)

\* C14: the default render of a stack with frames is "<X> (code:N)", N the top
\* frame's code and X the external text registered for it, or the top frame's
\* message when none is; it is the render of the top frame alone, and the
\* internal text registered for the code is no part of it.
C14_DefaultRenderSafe ==
    last.op = "%v" /\ ErrLen(err.errs) > 0 =>
        LET top == Last(err.errs)
            registered == top.code \in DOMAIN Codes
            X == IF registered /\ Codes[top.code].Ext # <<>>
                 THEN Codes[top.code].Ext ELSE top.msg
        IN /\ Str(Rendered) = Str(X) \o " (code:" \o ToString(top.code) \o ")"
           /\ Rendered = String(<<top>>)
           /\ registered /\ Codes[top.code].Int # Codes[top.code].Ext
                => \A k \in 1..Len(Rendered) :
                       Codes[top.code].Int # <<>> => Rendered[k] # Codes[top.code].Int[1]

\* C15: a stack printed with %s gives what %v gives: the external text
\* registered for the top frame's code, or the frame's message when none is,
\* followed by the code.
C15_VerbSAliasOfV ==
    last.op = "%s" =>
        /\ Rendered = Format(err.errs, "", "v")
        /\ ErrLen(err.errs) > 0 => Rendered = Sprintf(ErrMsgExt(Last(err.errs)), <<>>)

\* C16: whenever a goroutine is about to read or write the frame sequence it
\* holds the stack's mutex, and a goroutine about to write it is never
\* alongside another one about to read or write it.
C16_LockDiscipline ==
    last.op = "go" =>
        /\ \A t \in Threads : At(t, Reads \cup Writes) => threads[t].holds
        /\ \A t, u \in Threads :
               t # u /\ At(t, Writes) => ~At(u, Reads \cup Writes)

\* What a call leaves of a stack when nothing runs beside it.
Effect(op, errs) ==
    CASE op = "Push" -> Push(errs, <<someMsg>>)
      [] op = "With" -> With(errs, WithArgs.e, WithArgs.msg, WithArgs.data, CallSite)
      [] OTHER -> errs

\* The frame sequences the calls of the two goroutines leave in a serial order.
Serial ==
    { Effect(threads[o[2]].op, Effect(threads[o[1]].op, last.pre.errs)) :
        o \in {<<"t1", "t2">>, <<"t2", "t1">>} }

\* With has taken the top frame off and has not put it back.
MidSplice(t) ==
    /\ threads[t].op = "With"
    /\ \E k \in 1..Len(threads[t].todo) : threads[t].todo[k] = "append.top"
    /\ \A k \in 1..Len(threads[t].todo) : threads[t].todo[k] # "popWrite"

\* C17: when one goroutine calls With and the other Push, Len, Last, Code or
\* With, the frames left when both have returned are those of a serial order
\* of the two calls, no call panics that panics in no serial order (only Last
\* on an empty stack does), and Len and Last never read the frames while With
\* has the top frame off.
C17_MethodsAtomic ==
    /\ last.op = "go"
    /\ \A t \in Threads : threads[t].op \in {"With", "Push", "Len", "Last", "Code"}
    /\ \E t \in Threads : threads[t].op = "With"
    => /\ (\A t \in Threads : threads[t].todo = <<>>) => err.errs \in Serial
       /\ \A t \in Threads : threads[t].fault => threads[t].op = "Last"
       /\ \A t, u \in Threads :
              t # u /\ At(t, {"len", "last"}) => ~MidSplice(u)

\* C18: With(extra, m) on frames f0..f(n-1), n >= 1, with a non-nil extra
\* leaves f0..f(n-2), then a connector frame of code 0 with the formatted m as
\* its message, then the frames of extra (all k of a stack, the frame itself
\* for a single frame, one frame made for a foreign error), then f(n-1): n+1+k
\* frames for a stack of k.
C18_WithSplice ==
    last.op = "With" /\ last.e.kind # "nil" /\ ErrLen(last.pre.errs) >= 1 =>
        LET pre == last.pre.errs
            n == Len(pre)
            errs == err.errs
            k == CASE last.e.kind \in {"*Err", "Err"} -> Len(last.e.errs)
                   [] OTHER -> 1
        IN /\ Len(errs) = n + 1 + k
           /\ SubSeq(errs, 1, n - 1) = SubSeq(pre, 1, n - 1)
           /\ errs[n].code = 0
           /\ errs[n].msg = Sprintf(last.msg, last.data)
           /\ CASE last.e.kind \in {"*Err", "Err"} ->
                     SubSeq(errs, n + 1, n + k) = last.e.errs
                [] last.e.kind = "Msg" -> errs[n + 1] = last.e
                [] OTHER -> errs[n + 1].err = last.e
           /\ errs[n + 1 + k] = pre[n]

\* C19: Wrap(s, c, m) of a stack s of k frames returns k+1 frames: those of s
\* in their order and on top a frame of code c with the formatted m as its
\* message; s has its k frames after the call (last.e is s as Wrap left it),
\* so a second Wrap of s gives the same k+1 frames again;
\* under the new frame of a wrapped foreign error e there is one root frame of
\* code 0 with the message e.Error().
C19_WrapCopies ==
    last.op = "Wrap" /\ last.e.kind \in {"*Err", "error"} =>
        LET errs == err.errs
            top == errs[Len(errs)]
        IN /\ top.code = last.code
           /\ top.msg = Sprintf(last.msg, last.data)
           /\ last.e.kind = "*Err" =>
                LET s == last.e.errs
                    again == Wrap(last.e, last.code, last.msg, last.data, CallSite)
                IN /\ Len(errs) = Len(s) + 1
                   /\ SubSeq(errs, 1, Len(s)) = s
                   /\ Len(again) = Len(s) + 1
                   /\ again = errs
           /\ last.e.kind = "error" =>
                /\ Len(errs) = 2
                /\ errs[1].code = 0
                /\ errs[1].msg = last.e.text

C19_Witness ==
    /\ last.op = "Wrap"
    /\ last.e.kind = "*Err"
    /\ Len(last.e.errs) = 2
    /\ Len(err.errs) = 3
    /\ last.data # <<>>
    /\ Str(err.errs[3].msg) = "could not decode configuration data"
    /\ err.errs[1] = last.e.errs[1]
    /\ err.errs[2] = last.e.errs[2]

RECURSIVE Labels(_, _)
\* The labels of the entries of a render from chunk i on, in the order they
\* are written: an entry starts with "#" and its label.
Labels(t, i) ==
    IF i >= Len(t) THEN <<>>
    ELSE IF t[i] = "#" THEN <<t[i + 1]>> \o Labels(t, i + 2)
    ELSE Labels(t, i + 1)

\* The chunk at which the entry labelled j starts.
EntryAt(t, j) == CHOOSE i \in 1..Len(t) - 1 : t[i] = "#" /\ t[i + 1] = ToString(j)

\* C20: printed with %-v, %#v or %+v a stack of n frames gives n entries,
\* labelled n-1, n-2, ..., 0 in this order, the entry labelled k showing the
\* message of the frame stored at index k; printed with %v it gives the entry
\* of the top frame and no other.
C20_RenderOrder ==
    /\ last.op \in {"%-v", "%#v", "%+v"} =>
         LET n == Len(err.errs)
             at == IF last.op = "%+v" THEN 6 ELSE 9
         IN /\ Labels(Rendered, 1) = [j \in 1..n |-> ToString(n - j)]
            /\ \A k \in 0..(n - 1) :
                 LET i == EntryAt(Rendered, k) + at
                     msg == err.errs[k + 1].msg
                 IN SubSeq(Rendered, i, i + Len(msg) - 1) = msg
    /\ last.op = "%v" =>
         /\ Labels(Rendered, 1) = <<>>
         /\ Rendered = IF err.errs = <<>> THEN <<>>
                       ELSE Format(<<Last(err.errs)>>, "", "v")

C20_Witness ==
    /\ last.op = "%#v"
    /\ Len(err.errs) = 3
    /\ Labels(Rendered, 1) = <<"2", "1", "0">>
    /\ err.errs[1].msg = errEOF.text
    /\ err.errs[1].msg # err.errs[3].msg
    /\ SubSeq(Rendered, EntryAt(Rendered, 0) + 9, EntryAt(Rendered, 0) + 9)
         = errEOF.text

\* C22: when one goroutine calls Code, Msg, Caller or HTTPStatus and the other
\* With on a stack that had frames, Last never reads an empty frame sequence,
\* no goroutine panics and none is left holding the mutex after a panic.
C22_NoAccessorFault ==
    /\ last.op = "go"
    /\ last.pre.errs # <<>>
    /\ \E t, u \in Threads :
         /\ threads[t].op \in {"Code", "Msg", "Caller", "HTTPStatus"}
         /\ threads[u].op = "With"
    => \A t \in Threads :
         /\ At(t, {"last"}) => err.errs # <<>>
         /\ ~threads[t].fault
         /\ ~(threads[t].fault /\ threads[t].holds)

\* The goroutines call the operations that lock: Push, Len, Last, With.
LockBased == \A t \in Threads : threads[t].op \in {"Push", "Len", "Last", "With"}

\* No goroutine is about to wait for the stack's mutex while it holds errMux,
\* and at most one mutex was made for the stack.
TwoTierSafe ==
    /\ \A t \in Threads : At(t, {"mux"}) => ~threads[t].pkg
    /\ Cardinality({t \in Threads : threads[t].made}) <= 1

\* C21: when the goroutines call Push, Len, Last or With on a stack, with its
\* mutex made or still to make, none waits for the stack's mutex holding the
\* package's, they all lock the one mutex of the stack, and under fair
\* scheduling every call returns.
C21_TwoTierLockLive ==
    /\ [](LockBased => TwoTierSafe)
    /\ \A t \in Threads : LockBased ~> (threads[t].todo = <<>>)

====
